---------------------------- MODULE Spec2Model ----------------------------
(***************************************************************************)
(* progresscafe: the key codec, the update grammar, the update compiler,   *)
(* the state reader and the namespace enumerator of src/src/store.rs,      *)
(* over a model of the expiring key-value store they talk to.              *)
(*                                                                         *)
(* A Rust String is a sequence of one-character strings, so that           *)
(* splitting, joining, formatting and parsing are computed and not         *)
(* assumed.  Result, Option and a panic are tagged records.                *)
(***************************************************************************)
EXTENDS Integers, Sequences, FiniteSets, TLC

VARIABLES store, expect, call

vars == <<store, expect, call>>

(***************************************************************************)
(* Result<T>, Option<T>, and an abort of the calling task.                 *)
(***************************************************************************)
Ok(x) == [tag |-> "Ok", v |-> x]

Err(e) == [tag |-> "Err", e |-> e]

Panic == [tag |-> "Panic"]

None == [tag |-> "None"]

Some(x) == [tag |-> "Some", v |-> x]

(***************************************************************************)
(* Characters.                                                             *)
(***************************************************************************)
LowerLetters ==
    <<"a","b","c","d","e","f","g","h","i","j","k","l","m",
      "n","o","p","q","r","s","t","u","v","w","x","y","z">>

UpperLetters ==
    <<"A","B","C","D","E","F","G","H","I","J","K","L","M",
      "N","O","P","Q","R","S","T","U","V","W","X","Y","Z">>

DigitChars == <<"0","1","2","3","4","5","6","7","8","9">>

Range(f) == {f[i] : i \in DOMAIN f}

AsciiUppercase == Range(UpperLetters)

AsciiDigits == Range(DigitChars)

AsciiAlphanumeric == Range(LowerLetters) \cup AsciiUppercase \cup AsciiDigits

is_ascii_alphanumeric(c) == c \in AsciiAlphanumeric

is_ascii_digit(c) == c \in AsciiDigits

DigitValue(c) == (CHOOSE i \in DOMAIN DigitChars : DigitChars[i] = c) - 1

char_to_ascii_lowercase(c) ==
    IF c \in AsciiUppercase
    THEN LowerLetters[CHOOSE i \in DOMAIN UpperLetters : UpperLetters[i] = c]
    ELSE c

to_ascii_lowercase(s) == [i \in 1..Len(s) |-> char_to_ascii_lowercase(s[i])]

(***************************************************************************)
(* str::split_once, str::split, [&str]::join, str::contains.               *)
(***************************************************************************)
contains(s, c) == \E i \in 1..Len(s) : s[i] = c

find(s, c) == CHOOSE i \in 1..Len(s) : s[i] = c /\ \A j \in 1..(i - 1) : s[j] # c

split_once(s, c) ==
    IF contains(s, c)
    THEN Some(<<SubSeq(s, 1, find(s, c) - 1), SubSeq(s, find(s, c) + 1, Len(s))>>)
    ELSE None

RECURSIVE split(_, _)
split(s, c) ==
    IF contains(s, c)
    THEN <<SubSeq(s, 1, find(s, c) - 1)>> \o split(SubSeq(s, find(s, c) + 1, Len(s)), c)
    ELSE <<s>>

RECURSIVE join(_, _)
join(v, sep) ==
    IF Len(v) = 0 THEN <<>>
    ELSE IF Len(v) = 1 THEN v[1]
    ELSE v[1] \o sep \o join(Tail(v), sep)

(***************************************************************************)
(* i64 <-> decimal text: str::parse::<i64> and the i64 ToRedisArgs /       *)
(* FromRedisValue conversions.  Inputs stay below MaxDigits digits, far    *)
(* from the 19 digits at which parse reports an overflow.                  *)
(***************************************************************************)
RECURSIVE digits_value(_)
digits_value(s) ==
    IF Len(s) = 0 THEN 0
    ELSE 10 * digits_value(SubSeq(s, 1, Len(s) - 1)) + DigitValue(s[Len(s)])

all_digits(s) == Len(s) > 0 /\ \A i \in 1..Len(s) : is_ascii_digit(s[i])

parse_i64(s) ==
    IF Len(s) = 0 THEN Err("InvalidNumber")
    ELSE IF s[1] = "-"
         THEN IF all_digits(Tail(s)) THEN Ok(0 - digits_value(Tail(s)))
              ELSE Err("InvalidNumber")
    ELSE IF s[1] = "+"
         THEN IF all_digits(Tail(s)) THEN Ok(digits_value(Tail(s)))
              ELSE Err("InvalidNumber")
    ELSE IF all_digits(s) THEN Ok(digits_value(s))
    ELSE Err("InvalidNumber")

RECURSIVE nat_to_string(_)
nat_to_string(n) ==
    IF n < 10 THEN <<DigitChars[n + 1]>>
    ELSE nat_to_string(n \div 10) \o <<DigitChars[(n % 10) + 1]>>

i64_to_string(n) == IF n < 0 THEN <<"-">> \o nat_to_string(0 - n) ELSE nat_to_string(n)

(***************************************************************************)
(* store.rs, top of file.                                                  *)
(***************************************************************************)
EXPIRE_SECONDS == 60 * 60 * 4

check_string(s) ==
    IF \A i \in 1..Len(s) :
          is_ascii_alphanumeric(s[i]) \/ s[i] = "_" \/ s[i] = "-" \/ s[i] = "."
    THEN Ok(s)
    ELSE Err("InvalidCharset")

\* parse_i64_or_null that only knows the lower-case spelling.
parse_i64_or_null_exact_case(s) ==
    IF s = <<"n","u","l","l">>
    THEN Ok(None)
    ELSE IF parse_i64(s).tag = "Ok" THEN Ok(Some(parse_i64(s).v))
    ELSE parse_i64(s)

parse_i64_or_null(s) ==
    IF to_ascii_lowercase(s) = <<"n","u","l","l">>
    THEN Ok(None)
    ELSE IF parse_i64(s).tag = "Ok" THEN Ok(Some(parse_i64(s).v))
    ELSE parse_i64(s)

(***************************************************************************)
(* Key: the (token, key) pair, and its three string forms.                 *)
(***************************************************************************)
PCAFE == <<"p","c","a","f","e">>

COLON == <<":">>

Key(token, key) == [token |-> token, key |-> key]

Key_try_from(token, key) ==
    IF check_string(token).tag = "Err" THEN check_string(token)
    ELSE Ok(Key(token, key))

\* redis_key that leaves the token out of the key.
redis_key_without_token(self, param) ==
    IF contains(param, ":") THEN Panic
    ELSE Ok(PCAFE \o COLON \o self.key \o COLON \o param)

redis_key(self, param) ==
    IF contains(param, ":") THEN Panic
    ELSE Ok(PCAFE \o COLON \o self.token \o COLON \o self.key \o COLON \o param)

\* redis_key_pattern without the separator between token and key.
redis_key_pattern_unseparated(self) ==
    PCAFE \o COLON \o self.token \o self.key \o <<"*">>

redis_key_pattern(self) ==
    PCAFE \o COLON \o self.token \o COLON \o self.key \o <<"*">>

\* from_redis_key that leaves the field segment in the task.
from_redis_key_keeps_field(rk) ==
    LET segs == split(rk, ":")
        bad  == {i \in 1..Len(segs) : check_string(segs[i]).tag = "Err"}
    IN  IF bad # {} THEN Err("InvalidCharset")
        ELSE IF Len(segs) < 2 THEN Panic
        ELSE IF 2 > Len(segs) - 1 THEN Panic
        ELSE IF segs[1] = PCAFE
             THEN Ok(Key(segs[2], join(SubSeq(segs, 3, Len(segs)), COLON)))
        ELSE Err("BadStructure")

\* from_redis_key that takes the third segment alone as the task.
from_redis_key_one_segment(rk) ==
    LET segs == split(rk, ":")
        bad  == {i \in 1..Len(segs) : check_string(segs[i]).tag = "Err"}
    IN  IF bad # {} THEN Err("InvalidCharset")
        ELSE IF Len(segs) < 2 THEN Panic
        ELSE IF 2 > Len(segs) - 1 THEN Panic
        ELSE IF segs[1] = PCAFE
             THEN Ok(Key(segs[2], segs[3]))
        ELSE Err("BadStructure")

from_redis_key(rk) ==
    LET segs == split(rk, ":")
        bad  == {i \in 1..Len(segs) : check_string(segs[i]).tag = "Err"}
    IN  IF bad # {} THEN Err("InvalidCharset")
        ELSE IF Len(segs) < 2 THEN Panic
        ELSE IF 2 > Len(segs) - 1 THEN Panic
        ELSE IF segs[1] = PCAFE
             THEN Ok(Key(segs[2], join(SubSeq(segs, 3, Len(segs) - 1), COLON)))
        ELSE Err("BadStructure")

(***************************************************************************)
(* Update: the key and the three fields.  state is Option<String>;         *)
(* current and max are Option<Option<i64>>.                                *)
(***************************************************************************)
Update_new(key, state, current, max) ==
    [key |-> key, state |-> state, current |-> current, max |-> max]

P_STATE == <<"s","t","a","t","e">>

P_CURRENT == <<"c","u","r","r","e","n","t">>

P_MAX == <<"m","a","x">>

Cmd_set_ex(key, value, seconds) ==
    [cmd |-> "SETEX", key |-> key, seconds |-> seconds, value |-> value]

Cmd_del(key) == [cmd |-> "DEL", key |-> key]

\* ToRedisArgs of the type T a generic function is instantiated at.
to_redis_args(T, v) == IF T = "i64" THEN i64_to_string(v) ELSE v

\* as_cmd with the expiry given in minutes where SETEX takes seconds.
as_cmd_minutes(self, param, val, T) ==
    LET key == redis_key(self.key, param).v
    IN  IF val.tag = "None" THEN None
        ELSE IF val.v.tag = "Some"
             THEN Some(Cmd_set_ex(key, to_redis_args(T, val.v.v), 60 * 4))
        ELSE Some(Cmd_del(key))

\* val is Option<Option<T>>; the result is Option<Cmd>.
as_cmd(self, param, val, T) ==
    LET key == redis_key(self.key, param).v
    IN  IF val.tag = "None" THEN None
        ELSE IF val.v.tag = "Some"
             THEN Some(Cmd_set_ex(key, to_redis_args(T, val.v.v), EXPIRE_SECONDS))
        ELSE Some(Cmd_del(key))

flatten(opts) ==
    LET F[i \in 0..Len(opts)] ==
            IF i = 0 THEN <<>>
            ELSE IF opts[i].tag = "Some" THEN F[i - 1] \o <<opts[i].v>>
            ELSE F[i - 1]
    IN  F[Len(opts)]

\* as_cmds that builds the max command on the key of current.
as_cmds_max_on_current(self) ==
    flatten(<<as_cmd(self, P_STATE, Some(self.state), "String"),
              as_cmd(self, P_CURRENT, self.current, "i64"),
              as_cmd(self, P_CURRENT, self.max, "i64")>>)

as_cmds(self) ==
    flatten(<<as_cmd(self, P_STATE, Some(self.state), "String"),
              as_cmd(self, P_CURRENT, self.current, "i64"),
              as_cmd(self, P_MAX, self.max, "i64")>>)

from_query(token, key, val) ==
    LET so1     == split_once(val, "!")
        label   == IF so1.tag = "Some" THEN check_string(so1.v[1]) ELSE Ok(<<>>)
        state   == IF so1.tag = "Some" THEN Some(so1.v[1]) ELSE None
        rest    == IF so1.tag = "Some" THEN so1.v[2] ELSE val
        so2     == split_once(rest, "/")
        c       == IF so2.tag = "Some" THEN so2.v[1] ELSE rest
        m       == IF so2.tag = "Some" THEN parse_i64_or_null(so2.v[2]) ELSE Ok(None)
        max     == IF so2.tag = "Some" THEN Some(m.v) ELSE None
        cur     == IF c = <<>> THEN Ok(None) ELSE parse_i64_or_null(c)
        current == IF c = <<>> THEN None ELSE Some(cur.v)
        k       == Key_try_from(token, key)
    IN  IF label.tag = "Err" THEN label
        ELSE IF m.tag = "Err" THEN m
        ELSE IF cur.tag = "Err" THEN cur
        ELSE IF k.tag = "Err" THEN k
        ELSE Ok(Update_new(k.v, state, current, max))

(***************************************************************************)
(* The store collaborator: GET, SETEX, DEL and SCAN MATCH of a key-value   *)
(* store with expiring entries.  store maps each live key to its bytes and *)
(* its remaining time-to-live in seconds; NO_EXPIRY marks a key that was   *)
(* set without one (only producers other than this program do that).       *)
(***************************************************************************)
NO_EXPIRY == 0 - 1

Nil == [tag |-> "Nil"]

Data(bytes) == [tag |-> "Data", v |-> bytes]

Remove(f, k) == [x \in DOMAIN f \ {k} |-> f[x]]

Put(f, k, e) == [x \in DOMAIN f \cup {k} |-> IF x = k THEN e ELSE f[x]]

redis_query(st, c) ==
    IF c.cmd = "SETEX" THEN Put(st, c.key, [value |-> c.value, ttl |-> c.seconds])
    ELSE Remove(st, c.key)

redis_get(st, k) == IF k \in DOMAIN st THEN Data(st[k].value) ELSE Nil

RECURSIVE glob_match(_, _)
glob_match(p, s) ==
    IF Len(p) = 0 THEN Len(s) = 0
    ELSE IF p[1] = "*"
         THEN \E i \in 0..Len(s) : glob_match(Tail(p), SubSeq(s, i + 1, Len(s)))
    ELSE IF Len(s) = 0 THEN FALSE
    ELSE (p[1] = "?" \/ p[1] = s[1]) /\ glob_match(Tail(p), Tail(s))

redis_scan_match(st, pattern) == {k \in DOMAIN st : glob_match(pattern, k)}

redis_elapse(st, d) ==
    LET live == {k \in DOMAIN st : st[k].ttl = NO_EXPIRY \/ st[k].ttl > d}
    IN  [k \in live |->
            IF st[k].ttl = NO_EXPIRY THEN st[k]
            ELSE [value |-> st[k].value, ttl |-> st[k].ttl - d]]

(***************************************************************************)
(* Store: update, get_param, get_state, get_all_keys, with a store that    *)
(* answers every command.                                                  *)
(***************************************************************************)
Store_update(st, update) ==
    LET cmds == as_cmds(update)
        F[i \in 0..Len(cmds)] == IF i = 0 THEN st ELSE redis_query(F[i - 1], cmds[i])
    IN  F[Len(cmds)]

\* FromRedisValue of Option<T>.
from_redis_value(T, v) ==
    IF v.tag = "Nil" THEN Ok(None)
    ELSE IF T = "String" THEN Ok(Some(v.v))
    ELSE IF parse_i64(v.v).tag = "Ok" THEN Ok(Some(parse_i64(v.v).v))
    ELSE Err("TypeError")

get_param(st, key, param, T) ==
    from_redis_value(T, redis_get(st, redis_key(key, param).v))

Value(state, current, max) == [state |-> state, current |-> current, max |-> max]

\* get_state reading max from the key of current.
get_state_max_from_current(st, key) ==
    LET state   == get_param(st, key, P_STATE, "String")
        current == get_param(st, key, P_CURRENT, "i64")
        max     == get_param(st, key, P_CURRENT, "i64")
    IN  IF state.tag = "Err" THEN state
        ELSE IF current.tag = "Err" THEN current
        ELSE IF max.tag = "Err" THEN max
        ELSE Ok(Value(state.v, current.v, max.v))

get_state(st, key) ==
    LET state   == get_param(st, key, P_STATE, "String")
        current == get_param(st, key, P_CURRENT, "i64")
        max     == get_param(st, key, P_MAX, "i64")
    IN  IF state.tag = "Err" THEN state
        ELSE IF current.tag = "Err" THEN current
        ELSE IF max.tag = "Err" THEN max
        ELSE Ok(Value(state.v, current.v, max.v))

get_all_keys(st, token, keyprefix) ==
    LET kpref == Key_try_from(token, keyprefix)
        found == redis_scan_match(st, redis_key_pattern(kpref.v))
    IN  IF kpref.tag = "Err" THEN kpref
        ELSE IF \E k \in found : from_redis_key(k).tag = "Panic" THEN Panic
        ELSE Ok({from_redis_key(k).v : k \in {x \in found : from_redis_key(x).tag = "Ok"}})

(***************************************************************************)
(* What a reader is entitled to, kept beside the store: for each           *)
(* (identifier, field) that holds a value, the value last written and the  *)
(* seconds since that write.  An Update sets the label (state = Some) or   *)
(* deletes it (state = None) every time, and sets, deletes or leaves alone *)
(* current and max.                                                        *)
(***************************************************************************)
FieldNames == {"label", "current", "max"}

Param(f) == IF f = "label" THEN P_STATE ELSE IF f = "current" THEN P_CURRENT ELSE P_MAX

FourHours == 4 * 60 * 60

Issued(u, f) ==
    IF f = "label" THEN Some(u.state)
    ELSE IF f = "current" THEN u.current
    ELSE u.max

ExpectUpdate(e, u) ==
    LET gone == {<<u.key, f>> : f \in {g \in FieldNames :
                     Issued(u, g).tag = "Some" /\ Issued(u, g).v.tag = "None"}}
        set  == {<<u.key, f>> : f \in {g \in FieldNames :
                     Issued(u, g).tag = "Some" /\ Issued(u, g).v.tag = "Some"}}
    IN  [x \in (DOMAIN e \ gone) \cup set |->
            IF x \in set THEN [value |-> Issued(u, x[2]).v.v, age |-> 0] ELSE e[x]]

ExpectElapse(e, d) ==
    [x \in {y \in DOMAIN e : e[y].age + d < FourHours} |->
        [value |-> e[x].value, age |-> e[x].age + d]]

EntryOf(st, k) == IF k \in DOMAIN st THEN Some(st[k]) ELSE None

(***************************************************************************)
(* Inputs.                                                                 *)
(***************************************************************************)
V_all == <<"x", "!", "1", "/", "2">>

V_cur == <<"1">>

V_max == <<"/", "2">>

V_label == <<"x", "!">>

V_clear == <<"n", "u", "l", "l", "/", "n", "u", "l", "l">>

V_curdel == <<"7", "/", "n", "u", "l", "l">>

\* (token, key, value) of the reports: one task takes every shape of value,
\* a second task under the same token is reported in full or cleared.
Reports ==
    ({<<"t">>} \X {<<"a", ":", "b">>} \X {V_all, V_cur, V_max, V_label, V_clear, V_curdel})
    \cup ({<<"t">>} \X {<<"a">>} \X {V_all, V_clear})

Readers == {<<"t">>} \X {<<"a", ":", "b">>, <<"a">>}

TickSteps == {FourHours \div 2, FourHours - 1}

EnumReports ==
    ({<<"t">>} \X {<<"a">>, <<"a", ":", "b">>} \X {V_all, V_cur, V_clear})
    \cup ({<<"u">>} \X {<<"a">>} \X {V_cur, V_clear})

EnumTokens == {<<"t">>, <<"u">>}

Prefixes == {<<>>, <<"a">>, <<"a", ":">>}

ForeignKeys ==
    { PCAFE \o <<":", "t">>,
      PCAFE \o <<":", "t", ":", "a", "$", ":", "m", "a", "x">>,
      PCAFE \o <<":", "t", ":", "q">> }

(***************************************************************************)
(* The operations, each run to completion against a store that answers.    *)
(***************************************************************************)
Init ==
    /\ store = <<>>
    /\ expect = <<>>
    /\ call = [op |-> "init"]

\* One key=value pair of a report: Update::from_query, then Store::update.
Report(token, key, val) ==
    LET parsed == from_query(token, key, val)
    IN  /\ call' = [op |-> "report", token |-> token, key |-> key, val |-> val,
                    parsed |-> parsed,
                    pre |-> [f \in FieldNames |->
                               EntryOf(store, redis_key(Key(token, key), Param(f)).v)]]
        /\ IF parsed.tag = "Ok"
           THEN /\ store' = Store_update(store, parsed.v)
                /\ expect' = ExpectUpdate(expect, parsed.v)
           ELSE UNCHANGED <<store, expect>>

ReadState(token, key) ==
    /\ call' = [op |-> "get_state", key |-> Key(token, key),
                res |-> get_state(store, Key(token, key))]
    /\ UNCHANGED <<store, expect>>

ListTasks(token, keyprefix) ==
    /\ call' = [op |-> "get_all_keys", token |-> token, keyprefix |-> keyprefix,
                res |-> get_all_keys(store, token, keyprefix)]
    /\ UNCHANGED <<store, expect>>

\* Another producer sharing the keyspace sets a key of its own.
ForeignSet(k) ==
    /\ k \notin DOMAIN store
    /\ store' = Put(store, k, [value |-> <<"z">>, ttl |-> NO_EXPIRY])
    /\ call' = [op |-> "foreign", key |-> k]
    /\ UNCHANGED expect

Tick(d) ==
    /\ store' = redis_elapse(store, d)
    /\ expect' = ExpectElapse(expect, d)
    /\ call' = [op |-> "tick", d |-> d]

Next ==
    \/ \E r \in Reports : Report(r[1], r[2], r[3])
    \/ \E r \in Readers : ReadState(r[1], r[2])
    \/ \E d \in TickSteps : Tick(d)

Spec == Init /\ [][Next]_vars

\* The enumerator over a keyspace shared with other producers.
NextEnum ==
    \/ \E r \in EnumReports : Report(r[1], r[2], r[3])
    \/ \E t \in EnumTokens, p \in Prefixes : ListTasks(t, p)
    \/ \E k \in ForeignKeys : ForeignSet(k)

SpecEnum == Init /\ [][NextEnum]_vars

(***************************************************************************)
(* The codec, the grammar and the compiler on their own: each step calls   *)
(* one function on one input and keeps the result.                         *)
(***************************************************************************)
MaxValueLen == 3

MaxTaskSegs == 2

MaxRawSegs == 4

RECURSIVE Strings(_, _)
Strings(alphabet, n) ==
    IF n = 0 THEN {<<>>}
    ELSE Strings(alphabet, n - 1)
         \cup {s \o <<c>> : s \in Strings(alphabet, n - 1), c \in alphabet}

SegLists(segs, n) == UNION {[1..m -> segs] : m \in 1..n}

ValueAlphabet == {"1", "-", "a", "!", "/"}

ValueExamples ==
    { <<"1", "0", "/", "1", "0", "0">>,
      <<"d", "o", "n", "e", "!", "5", "/", "n", "u", "l", "l">>,
      <<"/", "5", "0">>,
      <<"a", "b", "c", "/", "1", "0", "0">>,
      <<"N", "u", "L", "l", "/", "N", "U", "L", "L">>,
      <<"x", "!", "n", "u", "l", "l">>,
      <<"+", "5", "/", "-", "0", "7">>,
      <<"a", "$", "!", "1">>,
      <<"x", "!", "y", "!", "1">>,
      <<"1", "/", "2", "/", "3">>,
      <<"n", "u", "l", "l", "1">>,
      <<"1", " ">> }

ValueStrings == Strings(ValueAlphabet, MaxValueLen) \cup ValueExamples

PureTokens == {<<"t">>, <<>>, <<"t", "$">>, <<"T", "_", "9", ".", "-">>}

ParseKeys == {<<"a", ":", "b">>, <<"a", " ", "b">>}

TaskSegs == {<<"a">>, <<>>, <<"b", "$">>, P_STATE}

PureTasks == {join(v, COLON) : v \in SegLists(TaskSegs, MaxTaskSegs)}

PureParams == {P_STATE, P_CURRENT, P_MAX, <<"a", ":", "b">>}

RawSegs == {PCAFE, <<"t">>, <<"a">>, <<>>, <<"a", "$">>, P_STATE}

RawKeys == {join(v, COLON) : v \in SegLists(RawSegs, MaxRawSegs)}

PureLabels == {None, Some(<<"x">>), Some(<<>>)}

PureNumbers == {None, Some(None), Some(Some(0)), Some(Some(10)), Some(Some(0 - 3))}

PureUpdates ==
    {Update_new(Key(<<"t">>, k), l, c, m) :
        k \in {<<"a">>, <<"a", ":", "b">>}, l \in PureLabels,
        c \in PureNumbers, m \in PureNumbers}

\* Each step is one call made from the state after construction.
ParseStep(token, key, val) ==
    /\ call.op = "init"
    /\ call' = [op |-> "from_query", token |-> token, key |-> key, val |-> val,
                res |-> from_query(token, key, val)]
    /\ UNCHANGED <<store, expect>>

\* Key::try_from, redis_key on the key it gives, from_redis_key on that text.
EncodeStep(token, key, param) ==
    LET k   == Key_try_from(token, key)
        enc == IF k.tag = "Ok" THEN redis_key(k.v, param) ELSE k
    IN  /\ call.op = "init"
        /\ call' = [op |-> "redis_key", token |-> token, key |-> key, param |-> param,
                    res |-> enc,
                    back |-> IF enc.tag = "Ok" THEN from_redis_key(enc.v) ELSE enc]
        /\ UNCHANGED <<store, expect>>

PatternStep(token, keyprefix) ==
    LET k == Key_try_from(token, keyprefix)
    IN  /\ call.op = "init"
        /\ call' = [op |-> "redis_key_pattern", token |-> token, key |-> keyprefix,
                    res |-> IF k.tag = "Ok" THEN Ok(redis_key_pattern(k.v)) ELSE k]
        /\ UNCHANGED <<store, expect>>

\* get_all_keys over a store that holds nothing.
ListStep(token, keyprefix) ==
    /\ call.op = "init"
    /\ ListTasks(token, keyprefix)

DecodeStep(rk) ==
    /\ call.op = "init"
    /\ call' = [op |-> "from_redis_key", arg |-> rk, res |-> from_redis_key(rk)]
    /\ UNCHANGED <<store, expect>>

CompileStep(u) ==
    /\ call.op = "init"
    /\ call' = [op |-> "as_cmds", update |-> u, res |-> as_cmds(u)]
    /\ UNCHANGED <<store, expect>>

NextPure ==
    \/ \E t \in PureTokens, k \in ParseKeys, v \in ValueStrings : ParseStep(t, k, v)
    \/ \E t \in PureTokens, k \in PureTasks, p \in PureParams : EncodeStep(t, k, p)
    \/ \E t \in PureTokens, k \in PureTasks : PatternStep(t, k)
    \/ \E t \in PureTokens, k \in PureTasks : ListStep(t, k)
    \/ \E rk \in RawKeys : DecodeStep(rk)
    \/ \E u \in PureUpdates : CompileStep(u)

SpecPure == Init /\ [][NextPure]_vars

(***************************************************************************)
(* Properties of reports and reads (Spec).                                 *)
(***************************************************************************)
FirstIndex(s, c) ==
    CHOOSE i \in 1..Len(s) : s[i] = c /\ \A j \in 1..Len(s) : s[j] = c => i <= j

\* What a report value mentions, read off the text of the value.
BodyOf(val) ==
    IF \E i \in 1..Len(val) : val[i] = "!"
    THEN SubSeq(val, FirstIndex(val, "!") + 1, Len(val))
    ELSE val

CurrentSegment(val) ==
    IF \E i \in 1..Len(BodyOf(val)) : BodyOf(val)[i] = "/"
    THEN SubSeq(BodyOf(val), 1, FirstIndex(BodyOf(val), "/") - 1)
    ELSE BodyOf(val)

Mentions(val, f) ==
    IF f = "label" THEN \E i \in 1..Len(val) : val[i] = "!"
    ELSE IF f = "current" THEN Len(CurrentSegment(val)) > 0
    ELSE \E i \in 1..Len(val) : val[i] = "/"

FieldKey(token, key, f) == PCAFE \o COLON \o token \o COLON \o key \o COLON \o Param(f)

Executed == call.op = "report" /\ call.parsed.tag = "Ok"

\* C1: a field the report does not mention keeps its stored value and its
\* remaining time-to-live through the update.
C1_UnmentionedFieldUntouched ==
    Executed =>
        \A f \in FieldNames :
            ~Mentions(call.val, f) =>
                EntryOf(store, FieldKey(call.token, call.key, f)) = call.pre[f]

\* C6: a read of an identifier answers, and gives for each field the value
\* last written if no delete followed and four hours have not passed since,
\* and nothing otherwise.
FieldOf(value, f) ==
    IF f = "label" THEN value.state ELSE IF f = "current" THEN value.current ELSE value.max

C6_WitnessNeverWritten ==
    /\ call.op = "get_state"
    /\ call.res = Ok(Value(None, None, None))
    /\ expect = <<>>

AllowedChars == AsciiAlphanumeric \cup {"_", ".", "-"}

AllAllowed(s) == \A i \in 1..Len(s) : s[i] \in AllowedChars

\* Every colon-delimited segment of s is made of allowed characters.
SegmentsAllowed(s) == \A i \in 1..Len(s) : s[i] = ":" \/ s[i] \in AllowedChars

HasChar(s, c) == \E i \in 1..Len(s) : s[i] = c

LabelText(val) == SubSeq(val, 1, FirstIndex(val, "!") - 1)

MaxSegment(val) ==
    SubSeq(BodyOf(val), FirstIndex(BodyOf(val), "/") + 1, Len(BodyOf(val)))

IsNull(s) ==
    /\ Len(s) = 4
    /\ s[1] \in {"n", "N"}
    /\ s[2] \in {"u", "U"}
    /\ s[3] \in {"l", "L"}
    /\ s[4] \in {"l", "L"}

IsInteger(s) ==
    \/ Len(s) >= 1 /\ \A i \in 1..Len(s) : s[i] \in AsciiDigits
    \/ Len(s) >= 2 /\ s[1] \in {"+", "-"} /\ \A i \in 2..Len(s) : s[i] \in AsciiDigits

IntegerOf(s) == parse_i64(s).v

\* The tri-state a number segment stands for.
NumberOf(s) == IF IsNull(s) THEN Some(None) ELSE Some(Some(IntegerOf(s)))

LabelBad(val) == HasChar(val, "!") /\ ~AllAllowed(LabelText(val))

CurrentBad(val) ==
    /\ Len(CurrentSegment(val)) > 0
    /\ ~IsNull(CurrentSegment(val))
    /\ ~IsInteger(CurrentSegment(val))

MaxBad(val) ==
    /\ HasChar(BodyOf(val), "/")
    /\ ~IsNull(MaxSegment(val))
    /\ ~IsInteger(MaxSegment(val))

S_done == <<"d", "o", "n", "e">>

\* C2: from_query follows the value grammar: label before the first '!',
\* the rest split at the first '/', an empty current absent, "null" in any
\* case a delete, anything else an integer or an InvalidNumber failure, an
\* empty max a failure.
C2_Grammar ==
    call.op = "from_query" =>
        LET val == call.val
            res == call.res
        IN  /\ res.tag = "Ok" =>
                  /\ res.v.state =
                        IF HasChar(val, "!") THEN Some(LabelText(val)) ELSE None
                  /\ res.v.current =
                        IF Len(CurrentSegment(val)) = 0 THEN None
                        ELSE NumberOf(CurrentSegment(val))
                  /\ res.v.max =
                        IF HasChar(BodyOf(val), "/") THEN NumberOf(MaxSegment(val))
                        ELSE None
            /\ res.tag = "Err" <=>
                  LabelBad(val) \/ CurrentBad(val) \/ MaxBad(val) \/ ~AllAllowed(call.token)
            /\ (~LabelBad(val) /\ (CurrentBad(val) \/ MaxBad(val))) =>
                  res = Err("InvalidNumber")
            /\ (HasChar(BodyOf(val), "/") /\ Len(MaxSegment(val)) = 0) => res.tag = "Err"
            /\ (val = <<"1", "0", "/", "1", "0", "0">> /\ AllAllowed(call.token)) =>
                  /\ res.tag = "Ok"
                  /\ res.v.state = None
                  /\ res.v.current = Some(Some(10))
                  /\ res.v.max = Some(Some(100))
            /\ (val = <<"/", "5", "0">> /\ AllAllowed(call.token)) =>
                  /\ res.tag = "Ok"
                  /\ res.v.current = None
                  /\ res.v.max = Some(Some(50))
            /\ val = <<"a", "b", "c", "/", "1", "0", "0">> => res.tag = "Err"

C2_Witness ==
    /\ call.op = "from_query"
    /\ call.val = S_done \o <<"!", "5", "/", "n", "u", "l", "l">>
    /\ call.res.tag = "Ok"
    /\ call.res.v.state = Some(S_done)
    /\ call.res.v.current = Some(Some(5))
    /\ call.res.v.max = Some(None)

\* C3: each entry point fails when the namespace or a segment of the task or
\* of the task prefix has a character outside [A-Za-z0-9_.-].
C3_CharsetRejected ==
    /\ (/\ call.op \in {"from_query", "redis_key", "redis_key_pattern"}
        /\ ~(AllAllowed(call.token) /\ SegmentsAllowed(call.key)))
           => call.res.tag = "Err"
    /\ (/\ call.op = "get_all_keys"
        /\ ~(AllAllowed(call.token) /\ SegmentsAllowed(call.keyprefix)))
           => call.res.tag = "Err"

\* C4 as stated: decoding an encoded key gives back namespace, task and field.
C4_RoundTripWithField ==
    (/\ call.op = "redis_key"
     /\ AllAllowed(call.token)
     /\ SegmentsAllowed(call.key)
     /\ call.param \in {P_STATE, P_CURRENT, P_MAX})
        => /\ call.back.tag = "Ok"
           /\ call.back.v = [token |-> call.token, key |-> call.key, field |-> call.param]

\* C4: decoding an encoded key gives back the namespace and the task; the
\* last segment is taken as the field and is not part of what is returned.
C4_RoundTrip ==
    (/\ call.op = "redis_key"
     /\ AllAllowed(call.token)
     /\ SegmentsAllowed(call.key)
     /\ call.param \in {P_STATE, P_CURRENT, P_MAX})
        => /\ call.res.tag = "Ok"
           /\ call.back.tag = "Ok"
           /\ call.back.v = [token |-> call.token, key |-> call.key]
           /\ DOMAIN call.back.v = {"token", "key"}

C4_Witness ==
    /\ call.op = "redis_key"
    /\ call.token = <<"T", "_", "9", ".", "-">>
    /\ call.key = <<"a", ":">>
    /\ call.param = P_CURRENT
    /\ call.back = Ok([token |-> call.token, key |-> call.key])

SegmentCount(s) == Cardinality({i \in 1..Len(s) : s[i] = ":"}) + 1

FirstSegment(s) == IF HasChar(s, ":") THEN SubSeq(s, 1, FirstIndex(s, ":") - 1) ELSE s

\* C5: from_redis_key always returns: InvalidCharset for a segment with a
\* disallowed character, BadStructure for fewer than 3 segments or a first
\* segment other than the prefix, and never an identifier for such input.
C5_DecodeStrict ==
    call.op = "from_redis_key" =>
        /\ call.res.tag # "Panic"
        /\ ~SegmentsAllowed(call.arg) => call.res = Err("InvalidCharset")
        /\ (SegmentsAllowed(call.arg)
              /\ (SegmentCount(call.arg) < 3 \/ FirstSegment(call.arg) # PCAFE))
              => call.res = Err("BadStructure")

\* C10: each field an Update carries gets exactly one command, on its own
\* key: SETEX with the value and the four hours, or DEL.  state = None is
\* how an Update carries a label to delete.
Carried(u, f) ==
    IF f = "label" THEN (IF u.state.tag = "Some" THEN "value" ELSE "null")
    ELSE IF FieldOf(u, f).tag = "None" THEN "absent"
    ELSE IF FieldOf(u, f).v.tag = "Some" THEN "value"
    ELSE "null"

ValueText(u, f) == IF f = "label" THEN u.state.v ELSE i64_to_string(FieldOf(u, f).v.v)

C10_OneCommandPerField ==
    call.op = "as_cmds" =>
        LET u    == call.update
            cmds == call.res
            K(f) == FieldKey(u.key.token, u.key.key, f)
            at(f) == {i \in 1..Len(cmds) : cmds[i].key = K(f)}
        IN  /\ \A f \in FieldNames :
                  /\ Carried(u, f) = "value" =>
                        /\ Cardinality(at(f)) = 1
                        /\ \A i \in at(f) :
                              cmds[i] = [cmd |-> "SETEX", key |-> K(f),
                                         seconds |-> FourHours, value |-> ValueText(u, f)]
                  /\ Carried(u, f) = "null" =>
                        /\ Cardinality(at(f)) = 1
                        /\ \A i \in at(f) : cmds[i] = [cmd |-> "DEL", key |-> K(f)]
            /\ \A i \in 1..Len(cmds) :
                  \E f \in FieldNames : Carried(u, f) # "absent" /\ cmds[i].key = K(f)
            /\ (u.state = None /\ u.current = None /\ u.max = Some(Some(10))) =>
                  cmds = << [cmd |-> "DEL", key |-> K("label")],
                            [cmd |-> "SETEX", key |-> K("max"), seconds |-> 14400,
                             value |-> <<"1", "0">>] >>

C10_Witness ==
    /\ call.op = "as_cmds"
    /\ call.update.state = None
    /\ call.update.current = None
    /\ call.update.max = Some(Some(10))
    /\ Len(call.res) = 2
    /\ call.res[1].cmd = "DEL"
    /\ call.res[2].cmd = "SETEX"

(***************************************************************************)
(* Properties of enumeration over a shared keyspace (SpecEnum).            *)
(***************************************************************************)
StartsWith(s, p) == Len(p) <= Len(s) /\ SubSeq(s, 1, Len(p)) = p

ScanPrefix(token, keyprefix) == PCAFE \o COLON \o token \o COLON \o keyprefix

\* The identifiers this program holds a field of, under one token.
HeldTasks(token) == {x[1] : x \in {y \in DOMAIN expect : y[1].token = token}}

FieldsHeld(id) == {f \in FieldNames : <<id, f>> \in DOMAIN expect}

ForeignHeld == DOMAIN store \cap ForeignKeys

Listed == call.op = "get_all_keys" /\ call.res.tag = "Ok"

\* C8: a task is listed once however many of its field keys are stored, so a
\* listing is no longer than the tasks that hold a key plus the keys of
\* other producers, and a listing that no stored key matches is empty and
\* is no error.
C8_ListedOnce ==
    call.op = "get_all_keys" =>
        /\ Listed =>
              Cardinality(call.res.v) <=
                  Cardinality(HeldTasks(call.token)) + Cardinality(ForeignHeld)
        /\ (\A k \in DOMAIN store : ~StartsWith(k, ScanPrefix(call.token, call.keyprefix)))
              => call.res = Ok({})

C8_Witness ==
    /\ Listed
    /\ call.token = <<"t">>
    /\ call.keyprefix = <<>>
    /\ Cardinality(FieldsHeld(Key(<<"t">>, <<"a", ":", "b">>))) = 3
    /\ Cardinality(FieldsHeld(Key(<<"t">>, <<"a">>))) = 2
    /\ ForeignHeld = {}
    /\ call.res.v = {Key(<<"t">>, <<"a", ":", "b">>), Key(<<"t">>, <<"a">>)}

Decodable(k) == SegmentsAllowed(k) /\ SegmentCount(k) >= 3 /\ FirstSegment(k) = PCAFE

Colons(k) == {i \in 1..Len(k) : k[i] = ":"}

SecondColon(k) == CHOOSE i \in Colons(k) : Cardinality({j \in Colons(k) : j < i}) = 1

LastColon(k) == CHOOSE i \in Colons(k) : \A j \in Colons(k) : j <= i

\* Namespace and task of a decodable key, by the positions of its colons.
TokenIn(k) == SubSeq(k, FirstIndex(k, ":") + 1, SecondColon(k) - 1)

TaskIn(k) == SubSeq(k, SecondColon(k) + 1, LastColon(k) - 1)

\* C9: whatever keys match the pattern, a listing under a valid token
\* answers without error or abort, holds every task of this program with a
\* matching field key, and holds nothing for a key that does not decode.
C9_BestEffort ==
    (call.op = "get_all_keys" /\ AllAllowed(call.token)) =>
        /\ call.res.tag = "Ok"
        /\ \A x \in DOMAIN expect :
              StartsWith(FieldKey(x[1].token, x[1].key, x[2]),
                         ScanPrefix(call.token, call.keyprefix))
                 => x[1] \in call.res.v
        /\ \A k \in DOMAIN store :
              (Decodable(k) /\ StartsWith(k, ScanPrefix(call.token, call.keyprefix)))
                 => Key(TokenIn(k), TaskIn(k)) \in call.res.v
        /\ \A id \in call.res.v :
              \E k \in DOMAIN store :
                 /\ Decodable(k)
                 /\ StartsWith(k, ScanPrefix(call.token, call.keyprefix))
                 /\ id = Key(TokenIn(k), TaskIn(k))

C9_Witness ==
    /\ Listed
    /\ call.token = <<"t">>
    /\ call.keyprefix = <<"a">>
    /\ ForeignHeld = ForeignKeys
    /\ \E k \in DOMAIN store :
          StartsWith(k, ScanPrefix(call.token, call.keyprefix)) /\ ~Decodable(k)
    /\ call.res.v = {Key(<<"t">>, <<"a", ":", "b">>), Key(<<"t">>, <<"a">>)}

(***************************************************************************)
(* The calls as the futures they compile to, against a store that may      *)
(* fail.  Each `.await?` on a store command is a point where the call is   *)
(* suspended; the store then either answers, refuses the command (an error *)
(* and no effect) or, for a write, applies it and loses the reply (an      *)
(* error after the effect).  expect, the ledger of the calls that run to   *)
(* completion, is not kept by these step-wise calls.                       *)
(***************************************************************************)
Pending == [tag |-> "Pending"]

Unit == <<>>

StoreFault == Err("StoreUnavailable")

WriteOutcomes == {"answered", "refused", "lost"}

ReadOutcomes == {"answered", "refused"}

Applied(outcome) == outcome \in {"answered", "lost"}

ReplyTo(outcome, answer) == IF outcome = "answered" THEN Ok(answer) ELSE StoreFault

\* Store::update up to its first await: the first command is issued.
Store_update_start(update) ==
    LET cmds == as_cmds(update)
    IN  IF cmds = <<>> THEN [cmds |-> cmds, sent |-> 0, res |-> Ok(Unit)]
        ELSE [cmds |-> cmds, sent |-> 1, res |-> Pending]

\* Store::update that carries on with the next command after a failed one.
Store_update_resume_ignores_error(fut, reply) ==
    IF fut.sent = Len(fut.cmds) THEN [fut EXCEPT !.res = Ok(Unit)]
    ELSE [fut EXCEPT !.sent = fut.sent + 1]

\* Store::update from the reply to command number sent to its next await or
\* its return.
Store_update_resume(fut, reply) ==
    IF reply.tag = "Err" THEN [fut EXCEPT !.res = reply]
    ELSE IF fut.sent = Len(fut.cmds) THEN [fut EXCEPT !.res = Ok(Unit)]
    ELSE [fut EXCEPT !.sent = fut.sent + 1]

ParamOrder == <<P_STATE, P_CURRENT, P_MAX>>

\* get_param on the reply of its GET.
get_param_reply(T, reply) ==
    IF reply.tag = "Err" THEN reply ELSE from_redis_value(T, reply.v)

\* get_state up to its first await: the GET of state is issued.
get_state_start(key) == [key |-> key, got |-> <<>>, res |-> Pending]

\* get_state whose third read asks for the key of current again.
get_state_awaits_current_twice(fut) ==
    redis_key(fut.key, <<P_STATE, P_CURRENT, P_CURRENT>>[Len(fut.got) + 1]).v

\* The key whose GET a suspended get_state waits for.
get_state_awaits(fut) == redis_key(fut.key, ParamOrder[Len(fut.got) + 1]).v

\* get_state that takes a failed read for an absent field.
get_state_resume_error_as_absent(fut, reply) ==
    LET T   == IF Len(fut.got) = 0 THEN "String" ELSE "i64"
        r   == get_param_reply(T, reply)
        got == Append(fut.got, IF r.tag = "Err" THEN None ELSE r.v)
    IN  IF Len(got) = 3
        THEN [fut EXCEPT !.got = got, !.res = Ok(Value(got[1], got[2], got[3]))]
        ELSE [fut EXCEPT !.got = got]

\* get_state from the reply to its outstanding GET to its next await or its
\* return.
get_state_resume(fut, reply) ==
    LET T   == IF Len(fut.got) = 0 THEN "String" ELSE "i64"
        r   == get_param_reply(T, reply)
        got == Append(fut.got, r.v)
    IN  IF r.tag = "Err" THEN [fut EXCEPT !.res = r]
        ELSE IF Len(got) = 3
             THEN [fut EXCEPT !.got = got, !.res = Ok(Value(got[1], got[2], got[3]))]
        ELSE [fut EXCEPT !.got = got]

\* Iterator::collect into Result<Vec<_>, _>: the first error, or every value.
collect(results) ==
    LET bad == {i \in 1..Len(results) : results[i].tag = "Err"}
    IN  IF bad # {} THEN results[CHOOSE i \in bad : \A j \in bad : i <= j]
        ELSE Ok([i \in 1..Len(results) |-> results[i].v])

\* The loop of the send handler at its head, with todo still to execute.
RECURSIVE send_next(_)
send_next(todo) ==
    IF todo = <<>> THEN [todo |-> todo, cur |-> None, res |-> Ok(<<"O", "K">>)]
    ELSE LET f == Store_update_start(Head(todo))
         IN  IF f.res.tag = "Pending"
             THEN [todo |-> Tail(todo), cur |-> Some(f), res |-> Pending]
             ELSE send_next(Tail(todo))

\* The send handler that executes the pairs that parse and drops the others.
send_start_drops_invalid(token, query) ==
    LET parsed == [i \in 1..Len(query) |-> from_query(token, query[i][1], query[i][2])]
    IN  send_next(flatten([i \in 1..Len(query) |->
                     IF parsed[i].tag = "Ok" THEN Some(parsed[i].v) ELSE None]))

\* The send handler up to its first await: query is the list of key=value
\* pairs of the request, in request order.
send_start(token, query) ==
    LET updates == collect([i \in 1..Len(query) |->
                               from_query(token, query[i][1], query[i][2])])
    IN  IF updates.tag = "Err" THEN [todo |-> <<>>, cur |-> None, res |-> updates]
        ELSE send_next(updates.v)

\* The send handler from the reply to the outstanding command of its current
\* update to its next await or its return.
send_resume(fut, reply) ==
    LET cur == Store_update_resume(fut.cur.v, reply)
    IN  IF cur.res.tag = "Err" THEN [fut EXCEPT !.cur = Some(cur), !.res = cur.res]
        ELSE IF cur.res.tag = "Ok" THEN send_next(fut.todo)
        ELSE [fut EXCEPT !.cur = Some(cur)]

MaxPairs == 2

FaultToken == <<"t">>

FaultKey == Key(FaultToken, <<"a", ":", "b">>)

V_bad == <<"a">>

FaultUpdates ==
    {from_query(FaultToken, FaultKey.key, v).v : v \in {V_all, V_curdel, V_max}}

Pairs ==
    { <<FaultKey.key, V_all>>, <<FaultKey.key, V_curdel>>, <<FaultKey.key, V_bad>> }

Queries == SegLists(Pairs, MaxPairs)

Idle == IF call.op = "init" THEN TRUE ELSE call.fut.res.tag # "Pending"

\* Store::update is called.
UpdateBegin(update) ==
    /\ Idle
    /\ call' = [op |-> "update", update |-> update, pre |-> store, log |-> <<>>,
                fut |-> Store_update_start(update)]
    /\ UNCHANGED <<store, expect>>

\* The store settles the outstanding command of the update.
UpdateAnswered(outcome) ==
    /\ call.op = "update" /\ call.fut.res.tag = "Pending"
    /\ LET c == call.fut.cmds[call.fut.sent]
       IN  /\ store' = IF Applied(outcome) THEN redis_query(store, c) ELSE store
           /\ call' = [call EXCEPT
                         !.fut = Store_update_resume(@, ReplyTo(outcome, Unit)),
                         !.log = Append(@, [c |-> c, outcome |-> outcome])]
    /\ UNCHANGED expect

\* get_state is called.
ReadBegin(key) ==
    /\ Idle
    /\ call' = [op |-> "read", key |-> key, log |-> <<>>, fut |-> get_state_start(key)]
    /\ UNCHANGED <<store, expect>>

\* The store settles the outstanding GET of get_state.
ReadAnswered(outcome) ==
    /\ call.op = "read" /\ call.fut.res.tag = "Pending"
    /\ LET k == get_state_awaits(call.fut)
       IN  call' = [call EXCEPT
                      !.fut = get_state_resume(@, ReplyTo(outcome, redis_get(store, k))),
                      !.log = Append(@, [key |-> k, outcome |-> outcome])]
    /\ UNCHANGED <<store, expect>>

\* A report request with the pairs of query arrives at the send route.
SendBegin(token, query) ==
    /\ Idle
    /\ call' = [op |-> "send", token |-> token, query |-> query, pre |-> store,
                log |-> <<>>, fut |-> send_start(token, query)]
    /\ UNCHANGED <<store, expect>>

\* The store settles the outstanding command of the request.
SendAnswered(outcome) ==
    /\ call.op = "send" /\ call.fut.res.tag = "Pending"
    /\ LET c == call.fut.cur.v.cmds[call.fut.cur.v.sent]
       IN  /\ store' = IF Applied(outcome) THEN redis_query(store, c) ELSE store
           /\ call' = [call EXCEPT
                         !.fut = send_resume(@, ReplyTo(outcome, Unit)),
                         !.log = Append(@, [c |-> c, outcome |-> outcome])]
    /\ UNCHANGED expect

NextFault ==
    \/ \E u \in FaultUpdates : UpdateBegin(u)
    \/ \E o \in WriteOutcomes : UpdateAnswered(o)
    \/ ReadBegin(FaultKey)
    \/ \E o \in ReadOutcomes : ReadAnswered(o)
    \/ \E q \in Queries : SendBegin(FaultToken, q)
    \/ \E o \in WriteOutcomes : SendAnswered(o)

SpecFault == Init /\ [][NextFault]_vars

(***************************************************************************)
(* Two calls in flight at once, as two requests served together: each is   *)
(* suspended at its store command, and the store settles the outstanding   *)
(* commands in any order.  The store answers every command here.           *)
(***************************************************************************)
ConcSeeds == {<<"t">>, <<"u">>} \X {<<"a">>} \X {V_all}

ConcUpdates ==
    {from_query(r[1], r[2], r[3]).v :
        r \in ({<<"t">>, <<"u">>} \X {<<"a">>} \X {V_all, V_curdel})
              \cup {<<<<"t">>, <<"a", ":", "s", "t", "a", "t", "e">>, V_cur>>,
                    <<<<>>, <<"t", ":", "a">>, V_max>>}}

RaceKey == Key(<<"t">>, <<"a">>)

RaceUpdates ==
    {from_query(RaceKey.token, RaceKey.key, v).v : v \in {V_all, V_curdel, V_cur, V_clear}}

Quiet == call.op \in {"init", "report"}

\* A report served alone, before the two calls start.
SeedReport(token, key, val) == Quiet /\ Report(token, key, val)

\* Store::update is called twice, on two different identifiers.
UpdatesBegin(ua, ub) ==
    /\ Quiet
    /\ ua.key # ub.key
    /\ call' = [op |-> "updates", ua |-> ua, ub |-> ub, pre |-> store, log |-> <<>>,
                a |-> Store_update_start(ua), b |-> Store_update_start(ub)]
    /\ UNCHANGED <<store, expect>>

\* The store answers the outstanding command of the first update.
FirstAnswered ==
    /\ call.op = "updates" /\ call.a.res.tag = "Pending"
    /\ LET c == call.a.cmds[call.a.sent]
       IN  /\ store' = redis_query(store, c)
           /\ call' = [call EXCEPT !.a = Store_update_resume(@, Ok(Unit)),
                                   !.log = Append(@, [by |-> "a", c |-> c])]
    /\ UNCHANGED expect

\* The store answers the outstanding command of the second update.
SecondAnswered ==
    /\ call.op = "updates" /\ call.b.res.tag = "Pending"
    /\ LET c == call.b.cmds[call.b.sent]
       IN  /\ store' = redis_query(store, c)
           /\ call' = [call EXCEPT !.b = Store_update_resume(@, Ok(Unit)),
                                   !.log = Append(@, [by |-> "b", c |-> c])]
    /\ UNCHANGED expect

\* Store::update and Store::get_state are called on the same identifier.
RaceBegin(update) ==
    /\ Quiet
    /\ call' = [op |-> "race", update |-> update, key |-> update.key, pre |-> store,
                w |-> Store_update_start(update), r |-> get_state_start(update.key)]
    /\ UNCHANGED <<store, expect>>

\* The store answers the outstanding command of the update.
RaceWriteAnswered ==
    /\ call.op = "race" /\ call.w.res.tag = "Pending"
    /\ store' = redis_query(store, call.w.cmds[call.w.sent])
    /\ call' = [call EXCEPT !.w = Store_update_resume(@, Ok(Unit))]
    /\ UNCHANGED expect

\* The store answers the outstanding GET of get_state.
RaceReadAnswered ==
    /\ call.op = "race" /\ call.r.res.tag = "Pending"
    /\ call' = [call EXCEPT
                  !.r = get_state_resume(@, Ok(redis_get(store, get_state_awaits(call.r))))]
    /\ UNCHANGED <<store, expect>>

NextConc ==
    \/ \E r \in ConcSeeds : SeedReport(r[1], r[2], r[3])
    \/ \E ua \in ConcUpdates, ub \in ConcUpdates : UpdatesBegin(ua, ub)
    \/ FirstAnswered
    \/ SecondAnswered
    \/ \E u \in RaceUpdates : RaceBegin(u)
    \/ RaceWriteAnswered
    \/ RaceReadAnswered

SpecConc == Init /\ [][NextConc]_vars

(***************************************************************************)
(* The enumerator over what this program wrote: reports under two tokens,  *)
(* for tasks of one and two segments and for a task with a character       *)
(* outside the charset, listings under every prefix of those tasks and     *)
(* under a prefix that runs into a field name, and time passing.           *)
(***************************************************************************)
T_odd == <<"a", "$">>

ListReports ==
    ({<<"t">>} \X {<<"a">>, T_odd} \X {V_cur, V_clear})
    \cup ({<<"t">>} \X {<<"a", ":", "b">>} \X {V_all, V_clear})
    \cup ({<<"u">>} \X {<<"a">>} \X {V_cur})

ListTokens == {<<"t">>, <<"u">>}

ListPrefixes ==
    {<<>>, <<"a">>, <<"a", ":">>, <<"a", ":", "b">>, <<"a", ":", "c">>, T_odd}

ListTickSteps == {FourHours - 1}

NextList ==
    \/ \E r \in ListReports : Report(r[1], r[2], r[3])
    \/ \E t \in ListTokens, p \in ListPrefixes : ListTasks(t, p)
    \/ \E d \in ListTickSteps : Tick(d)

SpecList == Init /\ [][NextList]_vars

(***************************************************************************)
(* Properties of the calls against a store that may fail.                  *)
(***************************************************************************)
Returned == call.op # "init" /\ call.fut.res.tag # "Pending"

Unanswered(log) == {i \in 1..Len(log) : log[i].outcome # "answered"}

StoredText(k) == IF k \in DOMAIN store THEN Some(store[k].value) ELSE None

ReturnedText(value, f) ==
    IF FieldOf(value, f).tag = "None" THEN None
    ELSE IF f = "label" THEN FieldOf(value, f)
    ELSE Some(i64_to_string(FieldOf(value, f).v))

\* C11: when one of the three reads of get_state fails, get_state returns an
\* error that carries no record; it returns a record only when the store
\* answered the three reads, and then a field is missing from the record
\* exactly when its key is absent from the store.
C11_FailedReadNoRecord ==
    (call.op = "read" /\ Returned) =>
        /\ Unanswered(call.log) # {} =>
              call.fut.res.tag = "Err" /\ DOMAIN call.fut.res = {"tag", "e"}
        /\ call.fut.res.tag = "Ok" =>
              /\ Len(call.log) = 3
              /\ Unanswered(call.log) = {}
              /\ \A f \in FieldNames :
                    ReturnedText(call.fut.res.v, f)
                        = StoredText(FieldKey(call.key.token, call.key.key, f))

\* The third read fails after two reads that returned stored values.
C11_Witness ==
    /\ call.op = "read" /\ Returned
    /\ Len(call.log) = 3
    /\ Unanswered(call.log) = {3}
    /\ call.log[1].key \in DOMAIN store
    /\ call.log[2].key \in DOMAIN store
    /\ call.fut.res.tag = "Err"

Replay(st, log) ==
    LET F[i \in 0..Len(log)] ==
            IF i = 0 THEN st
            ELSE IF Applied(log[i].outcome) THEN redis_query(F[i - 1], log[i].c)
            ELSE F[i - 1]
    IN  F[Len(log)]

ApplyPrefix(st, cmds, n) ==
    LET F[i \in 0..n] == IF i = 0 THEN st ELSE redis_query(F[i - 1], cmds[i])
    IN  F[n]

Commands(log) == [i \in 1..Len(log) |-> log[i].c]

FieldRank(id, k) ==
    IF k = FieldKey(id.token, id.key, "label") THEN 1
    ELSE IF k = FieldKey(id.token, id.key, "current") THEN 2
    ELSE IF k = FieldKey(id.token, id.key, "max") THEN 3
    ELSE 0

\* C13: one update issues its commands one at a time in the order label,
\* current, max, each at most once; the first command that fails ends the
\* update with that error, the commands before it stay applied, none after
\* it is issued, and the store is left with a prefix of the update's
\* commands applied.
C13_UpdateStopsAtFirstFailure ==
    call.op = "update" =>
        LET cmds == as_cmds(call.update)
            n    == Len(call.log)
        IN  /\ n <= Len(cmds)
            /\ Commands(call.log) = SubSeq(cmds, 1, n)
            /\ \A i \in 1..n : FieldRank(call.update.key, cmds[i].key) > 0
            /\ \A i, j \in 1..n :
                  i < j => FieldRank(call.update.key, cmds[i].key)
                              < FieldRank(call.update.key, cmds[j].key)
            /\ Unanswered(call.log) \subseteq {n}
            /\ store = Replay(call.pre, call.log)
            /\ \E m \in {k \in {n - 1, n} : k >= 0} : store = ApplyPrefix(call.pre, cmds, m)
            /\ call.fut.res.tag = "Pending" => Unanswered(call.log) = {} /\ n < Len(cmds)
            /\ call.fut.res.tag = "Err" <=> Unanswered(call.log) # {}
            /\ call.fut.res.tag = "Ok" => n = Len(cmds) /\ store = ApplyPrefix(call.pre, cmds, n)

\* The second of three commands is refused: the first stays applied, the
\* third is never issued.
C13_Witness ==
    /\ call.op = "update" /\ Returned
    /\ Len(as_cmds(call.update)) = 3
    /\ Len(call.log) = 2
    /\ call.log[2].outcome = "refused"
    /\ call.fut.res.tag = "Err"
    /\ store # call.pre
    /\ store # ApplyPrefix(call.pre, as_cmds(call.update), 3)

SendParsed == [i \in 1..Len(call.query) |->
                  from_query(call.token, call.query[i][1], call.query[i][2])]

FailingPairs == {i \in 1..Len(call.query) : SendParsed[i].tag = "Err"}

FirstFailingPair == CHOOSE i \in FailingPairs : \A j \in FailingPairs : i <= j

SendPlan ==
    LET F[i \in 0..Len(call.query)] ==
            IF i = 0 THEN <<>> ELSE F[i - 1] \o as_cmds(SendParsed[i].v)
    IN  F[Len(call.query)]

\* C17: a request whose pairs do not all parse issues no store command and
\* returns the error of its first failing pair; a request whose pairs all
\* parse issues the commands of its updates in request order, and the first
\* command that fails ends the request with nothing issued after it.
C17_ParseAllThenExecute ==
    call.op = "send" =>
        IF FailingPairs # {}
        THEN /\ call.log = <<>>
             /\ store = call.pre
             /\ call.fut.res = SendParsed[FirstFailingPair]
        ELSE LET n == Len(call.log)
             IN  /\ n <= Len(SendPlan)
                 /\ Commands(call.log) = SubSeq(SendPlan, 1, n)
                 /\ Unanswered(call.log) \subseteq {n}
                 /\ store = Replay(call.pre, call.log)
                 /\ call.fut.res.tag = "Pending" =>
                       Unanswered(call.log) = {} /\ n < Len(SendPlan)
                 /\ call.fut.res.tag = "Err" <=> Unanswered(call.log) # {}
                 /\ call.fut.res.tag = "Ok" => n = Len(SendPlan)

\* A request of two pairs, the first valid and the second not, against a
\* store the first pair would have changed.
C17_Witness ==
    /\ call.op = "send" /\ Returned
    /\ Len(call.query) = 2
    /\ FailingPairs = {2}
    /\ call.fut.res.tag = "Err"
    /\ Store_update(call.pre, SendParsed[1].v) # call.pre
    /\ store = call.pre

(***************************************************************************)
(* Properties of two calls in flight at once.                              *)
(***************************************************************************)
KeysOf(id) == {FieldKey(id.token, id.key, f) : f \in FieldNames}

BothReturned == call.a.res.tag # "Pending" /\ call.b.res.tag # "Pending"

\* Identifiers whose tasks hold colons, field names, a token and nothing.
IdPool ==
    {Key(t, k) : t \in {<<>>, <<"t">>, <<"u">>},
                 k \in {<<>>, <<"a">>, <<"a", ":", "b">>, <<"t", ":", "a">>, <<":">>,
                        <<"a", ":", "s", "t", "a", "t", "e">>, <<"s", "t", "a", "t", "e">>,
                        <<"a", ":">>, <<":", "a">>}}

Triples == IdPool \X FieldNames

\* C12: two identifiers that differ have no store key in common; of two
\* updates to different identifiers running together, neither issues a
\* command on a key of the other's identifier, every command is on a key of
\* its own identifier, and once both have returned the store is the one
\* reached by running them one after the other, in either order.
C12_DistinctIdentifiersIndependent ==
    call.op = "updates" =>
        /\ \A f, g \in FieldNames :
              redis_key(call.ua.key, Param(f)).v # redis_key(call.ub.key, Param(g)).v
        /\ KeysOf(call.ua.key) \cap KeysOf(call.ub.key) = {}
        /\ call.log = <<>> =>
              \A x, y \in Triples :
                  x # y => redis_key(x[1], Param(x[2])).v # redis_key(y[1], Param(y[2])).v
        /\ \A i \in 1..Len(call.log) :
              IF call.log[i].by = "a"
              THEN /\ call.log[i].c.key \in KeysOf(call.ua.key)
                   /\ call.log[i].c.key \notin KeysOf(call.ub.key)
              ELSE /\ call.log[i].c.key \in KeysOf(call.ub.key)
                   /\ call.log[i].c.key \notin KeysOf(call.ua.key)
        /\ BothReturned =>
              /\ store = Store_update(Store_update(call.pre, call.ua), call.ub)
              /\ store = Store_update(Store_update(call.pre, call.ub), call.ua)

\* Two updates to the same task under two tokens have both returned after
\* their commands alternated, over a store that held both tasks.
C12_Witness ==
    /\ call.op = "updates" /\ BothReturned
    /\ call.ua.key.key = call.ub.key.key
    /\ call.ua.key.token # call.ub.key.token
    /\ Len(call.log) = 6
    /\ call.log[1].by # call.log[2].by
    /\ call.log[2].by # call.log[3].by
    /\ KeysOf(call.ua.key) \cup KeysOf(call.ub.key) \subseteq DOMAIN call.pre
    /\ store # call.pre

RaceBefore == get_state(call.pre, call.key).v

RaceAfter == get_state(Store_update(call.pre, call.update), call.key).v

\* C14: a get_state that runs together with one update of the same
\* identifier returns a record each of whose fields is the field's value
\* before the update or its value after the update.
C14_EachFieldBeforeOrAfter ==
    (call.op = "race" /\ call.r.res.tag # "Pending") =>
        /\ call.r.res.tag = "Ok"
        /\ \A f \in FieldNames :
              \/ FieldOf(call.r.res.v, f) = FieldOf(RaceBefore, f)
              \/ FieldOf(call.r.res.v, f) = FieldOf(RaceAfter, f)

\* The record returned is neither the record before the update nor the
\* record after it: one field is read before its write and another after.
C14_Witness ==
    /\ call.op = "race" /\ call.r.res.tag = "Ok"
    /\ call.r.res.v # RaceBefore
    /\ call.r.res.v # RaceAfter
    /\ \E f, g \in FieldNames :
          /\ FieldOf(call.r.res.v, f) = FieldOf(RaceBefore, f)
          /\ FieldOf(call.r.res.v, f) # FieldOf(RaceAfter, f)
          /\ FieldOf(call.r.res.v, g) = FieldOf(RaceAfter, g)
          /\ FieldOf(call.r.res.v, g) # FieldOf(RaceBefore, g)

(***************************************************************************)
(* Properties of the enumerator over what this program wrote.              *)
(***************************************************************************)
\* C15: every identifier a listing returns has the token that was asked for
\* and a task that starts with the prefix that was asked for.
C15_ListedUnderPrefix ==
    Listed =>
        \A id \in call.res.v :
            /\ id.token = call.token
            /\ StartsWith(id.key, call.keyprefix)

\* The fields of id this program wrote that are neither deleted nor expired.
WrittenFields(id) == {f \in FieldNames : <<id, f>> \in DOMAIN expect}

Written == {x[1] : x \in DOMAIN expect}

ReadsWritten(id) ==
    /\ get_state(store, id).tag = "Ok"
    /\ \A f \in WrittenFields(id) :
          FieldOf(get_state(store, id).v, f) = Some(expect[<<id, f>>].value)

\* C16: a listing under a token holds every identifier of that token that
\* has a field this program wrote, neither deleted nor expired since, and
\* whose task starts with the prefix asked for (the empty prefix and every
\* prefix of the task included); get_state of the identifier reads the
\* fields written.
C16_WrittenTasksListed ==
    (call.op = "get_all_keys" /\ AllAllowed(call.token)) =>
        \A id \in Written :
            (id.token = call.token /\ StartsWith(id.key, call.keyprefix)) =>
                /\ call.res.tag = "Ok"
                /\ id \in call.res.v
                /\ ReadsWritten(id)

\* The same for the tasks whose segments are all within the charset.
C16_ValidTasksListed ==
    (call.op = "get_all_keys" /\ AllAllowed(call.token)) =>
        \A id \in Written :
            (id.token = call.token /\ StartsWith(id.key, call.keyprefix)
                /\ SegmentsAllowed(id.key)) =>
                /\ call.res.tag = "Ok"
                /\ id \in call.res.v
                /\ ReadsWritten(id)

====
